---- MODULE Spec2Model ----
(***************************************************************************)
(* cproxy: the POST /v1/messages handler of src/src/index.ts.              *)
(*                                                                         *)
(* Strings that the code measures, cuts or concatenates (tool-call         *)
(* argument strings, content and reasoning text) are sequences of          *)
(* one-character strings; strings the code only passes along (names,       *)
(* error messages) are TLA+ strings.  JSON values are tagged records.      *)
(***************************************************************************)
EXTENDS Integers, Sequences, FiniteSets, TLC

\* ------------------------------------------------------------------ bounds
MaxLines == 3        \* data lines the backend delivers in one response
MaxChunkLines == 2   \* lines in one network read
MaxTools == 3        \* tools in one request
MaxChildKeys == 2    \* keys holding sub-schemas in one schema object
MaxMessages == 2     \* entries of payload.messages in one request
MaxRequests == 2     \* streaming requests in progress at the same time
MaxRequestLines == 2 \* data lines delivered to one of the concurrent requests
MaxBodyLines == 2    \* lines of a backend body that is delivered as bytes

\* --------------------------------------------------------------- constants
NoIndex == -1        \* a tool-call delta without an index (idx = index || 0)
NoUsage == -1        \* streamingState.usage = null
NoCode == 0          \* reply.code() / writeHead() not called

VARIABLES
  pc,              \* position of the handler
  stream,          \* payload.stream of the request
  messages,        \* the outbound (translated) message list
  backend,         \* the backend response: [ok, status, hasBody]
  isSucceeded,     \* sendSuccessMessage has run
  streamingState,  \* the handler-local StreamingState
  events,          \* SSE events written to reply.raw, in order
  rawHead,         \* status given to reply.raw.writeHead, or NoCode
  rawEnded,        \* reply.raw.end() was called
  replyCode,       \* status given to reply.code, or NoCode
  replyBody,       \* value the handler returns (the JSON reply body)
  fed,             \* backend lines the read loop has processed, in order
  ignored,         \* lines of the last chunk the loop never reached
  response,        \* the body the non-streaming branch read: <<>> or <<data>>
  schema,          \* SchemaSanitizer run: the input schema
  sanitized,       \* removeUriFormat(schema)
  resanitized,     \* removeUriFormat(removeUriFormat(schema))
  excluded,        \* EXCLUDED_TOOLS
  reqTools,        \* payload.tools
  outTools,        \* openaiPayload.tools
  payload,         \* request translation: payload.system and payload.messages
  runs,            \* concurrent requests: the handler state of each invocation
  bodyText,        \* the backend body as text, in tokens
  pending,         \* the part of bodyText no read has delivered yet
  clientClosed,    \* the client has closed its connection
  lateReads        \* reads that resolved after the client had closed

vars == <<pc, stream, messages, backend, isSucceeded, streamingState, events, rawHead,
          rawEnded, replyCode, replyBody, fed, ignored, schema, sanitized, resanitized,
          excluded, reqTools, outTools, response, payload, runs, bodyText, pending,
          clientClosed, lateReads>>

handlerVars == <<pc, stream, messages, backend, isSucceeded, streamingState, events,
                 rawHead, rawEnded, replyCode, replyBody, fed, ignored, response>>
schemaVars == <<schema, sanitized, resanitized>>
toolVars == <<excluded, reqTools, outTools>>
requestVars == <<payload>>
concurrentVars == <<runs>>
bodyVars == <<bodyText, pending, clientClosed, lateReads>>

\* ----------------------------------------------------------------- strings
RECURSIVE Concat(_)
Concat(ss) == IF ss = <<>> THEN <<>> ELSE Head(ss) \o Concat(Tail(ss))

RECURSIVE CountSpaces(_)
CountSpaces(s) ==
  IF s = <<>> THEN 0
  ELSE (IF Head(s) = " " THEN 1 ELSE 0) + CountSpaces(Tail(s))

\* s.split(' ').length: one more than the number of spaces, 1 for ''.
SplitLength(s) == CountSpaces(s) + 1

\* -------------------------------------------------------------- SSE events
\* One shape for every event: index is NoIndex, kind "", text <<>>, tokens
\* NoUsage where the event's payload has no such field.
Event(type, index, kind, text, tokens) ==
  [type |-> type, index |-> index, kind |-> kind, text |-> text, tokens |-> tokens]

MessageStart == Event("message_start", NoIndex, "", <<>>, 0)
Ping == Event("ping", NoIndex, "", <<>>, NoUsage)
ContentBlockStart(idx, blockType) == Event("content_block_start", idx, blockType, <<>>, NoUsage)
ContentBlockDelta(idx, deltaType, text) == Event("content_block_delta", idx, deltaType, text, NoUsage)
ContentBlockStop(idx) == Event("content_block_stop", idx, "", <<>>, NoUsage)
MessageDelta(stopReason, tokens) == Event("message_delta", NoIndex, stopReason, <<>>, tokens)
MessageStop == Event("message_stop", NoIndex, "", <<>>, NoUsage)

\* ------------------------------------------------------------ reply bodies
NoBody == <<>>                           \* the handler returned undefined
ErrorBody(message) == <<"error", message>>   \* { error: message }

\* ----------------------------------------------------------- backend lines
\* One line of the backend body after trim().  kind: "skip" (empty, or not
\* starting with "data:"), "done" (data: [DONE]), "bad" (data that JSON.parse
\* rejects), "frame" (data that parses).  For a frame: error is
\* parsed.error.message ("" when there is no error field), hasChoices says
\* parsed.choices is an array, usage is parsed.usage.completion_tokens
\* (NoUsage when absent), and hasToolCalls / toolCalls / content / reasoning
\* are the fields of parsed.choices[0].delta (all empty when choices is []).
\* A tool-call delta is [index, args]; its id and function.name are passed
\* through to content_block_start unread and are left out.
Line(kind, error, hasChoices, usage, hasToolCalls, toolCalls, content, reasoning) ==
  [kind |-> kind, error |-> error, hasChoices |-> hasChoices, usage |-> usage,
   hasToolCalls |-> hasToolCalls, toolCalls |-> toolCalls,
   content |-> content, reasoning |-> reasoning]

SkipLine == Line("skip", "", FALSE, NoUsage, FALSE, <<>>, <<>>, <<>>)
DoneLine == Line("done", "", FALSE, NoUsage, FALSE, <<>>, <<>>, <<>>)
BadLine == Line("bad", "", FALSE, NoUsage, FALSE, <<>>, <<>>, <<>>)
ErrorFrame(msg) == Line("frame", msg, FALSE, NoUsage, FALSE, <<>>, <<>>, <<>>)
NoChoicesFrame == Line("frame", "", FALSE, NoUsage, FALSE, <<>>, <<>>, <<>>)
UsageFrame(u) == Line("frame", "", TRUE, u, FALSE, <<>>, <<>>, <<>>)
ToolFrame(calls) == Line("frame", "", TRUE, NoUsage, TRUE, calls, <<>>, <<>>)
ContentFrame(text) == Line("frame", "", TRUE, NoUsage, FALSE, <<>>, text, <<>>)
ReasoningFrame(text) == Line("frame", "", TRUE, NoUsage, FALSE, <<>>, <<>>, text)
ToolCall(index, args) == [index |-> index, args |-> args]

\* Messages of the errors the handler can throw.
ParseErrorMessage == "Unexpected token in JSON"
NoChoicesMessage == "Cannot read properties of undefined (reading '0')"
NoReaderMessage == "Failed to get response reader"

\* ---------------------------------------------------------- streaming run
\* The part of the handler's state one synchronous pass over a chunk's lines
\* reads and writes.
Run(p, succ, st, ev, head, ended, code, body, f) ==
  [pc |-> p, isSucceeded |-> succ, st |-> st, events |-> ev, rawHead |-> head,
   rawEnded |-> ended, replyCode |-> code, replyBody |-> body, fed |-> f]

InitialStreamingState ==
  [accumulatedContent |-> <<>>, accumulatedReasoning |-> <<>>, usage |-> NoUsage,
   textBlockStarted |-> FALSE, encounteredToolCall |-> FALSE,
   toolCallAccumulators |-> <<>>]

\* toolCallAccumulators is a function from the indexes seen to strings; <<>>
\* is the function with the empty domain.
Accumulated(acc, idx) == idx \in DOMAIN acc
SetAccumulator(acc, idx, args) ==
  [i \in (DOMAIN acc) \cup {idx} |-> IF i = idx THEN args ELSE acc[i]]

sendSSE(r, ev) == [r EXCEPT !.events = Append(@, ev)]

\* The exception leaves the handler and nothing is replied.
Rethrows(r, message) == [r EXCEPT !.pc = "thrown"]

\* catch (err): reply.code(500); return { error: error.message }
Catch(r, message) ==
  [r EXCEPT !.pc = "failed", !.replyCode = 500, !.replyBody = ErrorBody(message)]

sendSuccessMessage(r) ==
  IF r.isSucceeded THEN r
  ELSE sendSSE(sendSSE([r EXCEPT !.isSucceeded = TRUE, !.rawHead = 200],
                       MessageStart), Ping)

\* for (const idx in toolCallAccumulators): integer keys, ascending.
RECURSIVE StopToolBlocks(_, _)
StopToolBlocks(r, keys) ==
  IF keys = {} THEN r
  ELSE LET idx == CHOOSE i \in keys : \A j \in keys : i <= j
       IN StopToolBlocks(sendSSE(r, ContentBlockStop(idx)), keys \ {idx})

\* Stops the text block, when one is open, and then every tool block.
StopsTextBlockToo(r) ==
  LET r1 == IF r.st.textBlockStarted THEN sendSSE(r, ContentBlockStop(0)) ELSE r
  IN StopToolBlocks(r1, DOMAIN r.st.toolCallAccumulators)

StopBlocks(r) ==
  IF r.st.encounteredToolCall
    THEN StopToolBlocks(r, DOMAIN r.st.toolCallAccumulators)
  ELSE IF r.st.textBlockStarted THEN sendSSE(r, ContentBlockStop(0))
  ELSE r

OutputTokens(st) ==
  IF st.usage # NoUsage THEN st.usage
  ELSE SplitLength(st.accumulatedContent) + SplitLength(st.accumulatedReasoning)

AlwaysEndTurn(st) == "end_turn"

\* tool_use whenever any block was opened.
ToolUseWhenOpened(st) ==
  IF st.encounteredToolCall \/ st.textBlockStarted THEN "tool_use" ELSE "end_turn"

StopReason(st) == IF st.encounteredToolCall THEN "tool_use" ELSE "end_turn"

KeepsReading == "reading"

\* The position of the handler after the [DONE] branch: it returns.
AfterDone == "finalized"

\* dataStr === '[DONE]'
Finalize(r) ==
  LET r1 == StopBlocks(r)
      r2 == sendSSE(r1, MessageDelta(StopReason(r.st), OutputTokens(r.st)))
      r3 == sendSSE(r2, MessageStop)
  IN [r3 EXCEPT !.rawEnded = TRUE, !.pc = AfterDone]

ToolIndex(toolCall) == IF toolCall.index = NoIndex THEN 0 ELSE toolCall.index

WholeArguments(newArgs, oldArgs) == newArgs

\* newArgs.substring(oldArgs.length)
DeltaText(newArgs, oldArgs) == SubSeq(newArgs, Len(oldArgs) + 1, Len(newArgs))

\* Stores every argument string that is not the stored one.
Differs(newArgs, oldArgs) == newArgs # oldArgs

\* if (newArgs.length > oldArgs.length)
Grows(newArgs, oldArgs) == Len(newArgs) > Len(oldArgs)

\* One iteration of for (const toolCall of delta.tool_calls).
ApplyToolCall(r, toolCall) ==
  LET idx == ToolIndex(toolCall)
      r1 == [r EXCEPT !.st.encounteredToolCall = TRUE]
      r2 == IF Accumulated(r1.st.toolCallAccumulators, idx) THEN r1
            ELSE sendSSE([r1 EXCEPT !.st.toolCallAccumulators =
                                       SetAccumulator(@, idx, <<>>)],
                         ContentBlockStart(idx, "tool_use"))
      newArgs == toolCall.args
      oldArgs == r2.st.toolCallAccumulators[idx]
  IN IF Grows(newArgs, oldArgs)
       THEN [sendSSE(r2, ContentBlockDelta(idx, "input_json_delta",
                                           DeltaText(newArgs, oldArgs)))
               EXCEPT !.st.toolCallAccumulators = SetAccumulator(@, idx, newArgs)]
     ELSE r2

RECURSIVE ApplyToolCalls(_, _)
ApplyToolCalls(r, calls) ==
  IF calls = <<>> THEN r
  ELSE ApplyToolCalls(ApplyToolCall(r, Head(calls)), Tail(calls))

\* Writes a content_block_start for every content or reasoning delta.
OpensEveryTime(r) ==
  sendSSE([r EXCEPT !.st.textBlockStarted = TRUE], ContentBlockStart(0, "text"))

OpenTextBlock(r) ==
  IF r.st.textBlockStarted THEN r
  ELSE sendSSE([r EXCEPT !.st.textBlockStarted = TRUE], ContentBlockStart(0, "text"))

ApplyContent(r, text) ==
  sendSSE([OpenTextBlock(r) EXCEPT !.st.accumulatedContent = @ \o text],
          ContentBlockDelta(0, "text_delta", text))

\* Appends reasoning text to accumulatedContent.
ReasoningIntoContent(r, text) ==
  sendSSE([OpenTextBlock(r) EXCEPT !.st.accumulatedContent = @ \o text],
          ContentBlockDelta(0, "thinking_delta", text))

ApplyReasoning(r, text) ==
  sendSSE([OpenTextBlock(r) EXCEPT !.st.accumulatedReasoning = @ \o text],
          ContentBlockDelta(0, "thinking_delta", text))

\* if (delta?.tool_calls) ... else if (delta?.content) ... else if
\* (delta?.reasoning): an array, even an empty one, is truthy; '' is not.
ApplyDelta(r, line) ==
  IF line.hasToolCalls THEN ApplyToolCalls(r, line.toolCalls)
  ELSE IF line.content # <<>> THEN ApplyContent(r, line.content)
  ELSE IF line.reasoning # <<>> THEN ApplyReasoning(r, line.reasoning)
  ELSE r

\* Stores only the first usage object of the response.
KeepsFirstUsage(r, line) ==
  IF line.usage # NoUsage /\ r.st.usage = NoUsage
    THEN [r EXCEPT !.st.usage = line.usage]
  ELSE r

CaptureUsage(r, line) ==
  IF line.usage # NoUsage THEN [r EXCEPT !.st.usage = line.usage] ELSE r

\* A frame that parsed and carries no error field.
ApplyFrame(r, line) ==
  LET r1 == CaptureUsage(sendSuccessMessage(r), line)
  IN IF ~line.hasChoices THEN Catch(r1, NoChoicesMessage)
     ELSE ApplyDelta(r1, line)

\* The stream is opened before the line is parsed.
OpensBeforeParsing(r, line) ==
  LET r0 == sendSuccessMessage([r EXCEPT !.fed = Append(@, line)])
  IN CASE line.kind = "skip" -> [r EXCEPT !.fed = Append(@, line)]
       [] line.kind = "done" -> Finalize([r EXCEPT !.fed = Append(@, line)])
       [] line.kind = "bad" -> Catch(r0, ParseErrorMessage)
       [] line.error # "" -> Catch(r0, line.error)
       [] OTHER -> ApplyFrame(r0, line)

\* The body of for (const line of lines).
ProcessLine(r, line) ==
  LET r0 == [r EXCEPT !.fed = Append(@, line)]
  IN CASE line.kind = "skip" -> r0
       [] line.kind = "done" -> Finalize(r0)
       [] line.kind = "bad" -> Catch(r0, ParseErrorMessage)
       [] line.error # "" -> Catch(r0, line.error)
       [] OTHER -> ApplyFrame(r0, line)

\* The lines of one chunk, until the handler returns or throws.
RECURSIVE ProcessLines(_, _)
ProcessLines(r, lines) ==
  IF lines = <<>> \/ r.pc # "reading" THEN r
  ELSE ProcessLines(ProcessLine(r, Head(lines)), Tail(lines))


\* ------------------------------------------------------------- JSON values
\* A JSON value is a tagged record: a string, null, an object (a function
\* from its keys to JSON values) or an array (a sequence of JSON values).
JStr(text) == [t |-> "str", s |-> text]
JNull == [t |-> "null"]
JObj(fields) == [t |-> "obj", o |-> fields]
JArr(items) == [t |-> "arr", a |-> items]

EmptyFields == [k \in {} |-> JNull]
HasString(x, key, text) ==
  /\ key \in DOMAIN x.o
  /\ x.o[key].t = "str"
  /\ x.o[key].s = text

\* The key a for-in loop gives the element at position i of an array.
ArrayKey(i) == <<"0", "1", "2", "3">>[i]

\* const { format, ...rest } = schema; return rest
StripFormat(x) == JObj([k \in (DOMAIN x.o) \ {"format"} |-> x.o[k]])

RECURSIVE removeUriFormat(_)
removeUriFormat(x) ==
  IF x.t \notin {"obj", "arr"} THEN x
  ELSE IF x.t = "obj" /\ HasString(x, "type", "string") /\ HasString(x, "format", "uri")
    THEN StripFormat(x)
  ELSE IF x.t = "arr" THEN JArr([i \in DOMAIN x.a |-> removeUriFormat(x.a[i])])
  ELSE JObj([key \in DOMAIN x.o |->
         LET v == x.o[key]
         IN IF key = "properties" /\ v.t \in {"obj", "arr", "null"}
              THEN CASE v.t = "obj" ->
                          JObj([propKey \in DOMAIN v.o |-> removeUriFormat(v.o[propKey])])
                     [] v.t = "arr" ->
                          JObj([propKey \in {ArrayKey(i) : i \in DOMAIN v.a} |->
                                  removeUriFormat(v.a[CHOOSE i \in DOMAIN v.a :
                                                        ArrayKey(i) = propKey])])
                     [] OTHER -> JObj(EmptyFields)
            ELSE IF key = "items" /\ v.t \in {"obj", "arr", "null"}
              THEN removeUriFormat(v)
            ELSE IF key = "additionalProperties" /\ v.t \in {"obj", "arr", "null"}
              THEN removeUriFormat(v)
            ELSE IF key \in {"anyOf", "allOf", "oneOf"} /\ v.t = "arr"
              THEN JArr([i \in DOMAIN v.a |-> removeUriFormat(v.a[i])])
            ELSE removeUriFormat(v)])

\* ---- schemas the sanitizer is run on
Merge(f, g) == [k \in (DOMAIN f) \cup (DOMAIN g) |-> IF k \in DOMAIN g THEN g[k] ELSE f[k]]

UriString == JObj([k \in {"type", "format"} |-> IF k = "type" THEN JStr("string") ELSE JStr("uri")])
PlainString == JObj([k \in {"type"} |-> JStr("string")])

\* Objects over the keys type and format.
BaseFields ==
  UNION {[D -> {JStr("string"), JStr("object"), JStr("uri")}] : D \in SUBSET {"type", "format"}}
Bases ==
  {f \in BaseFields :
     /\ "type" \in DOMAIN f => f["type"].s \in {"string", "object"}
     /\ "format" \in DOMAIN f => f["format"].s \in {"uri"}}

ChildKeys == {"properties", "items", "additionalProperties", "anyOf", "default"}

\* The values tried under a child key, built from the sub-schemas kids.
ChildValues(key, kids) ==
  CASE key = "properties" -> {JObj([k \in {"url"} |-> kid]) : kid \in kids} \cup {JNull}
    [] key = "anyOf" -> {JArr(<<kid>>) : kid \in kids} \cup {JArr(<<PlainString, kid>>) : kid \in kids}
    [] OTHER -> kids

ChildFields(kids) ==
  {f \in UNION {[D -> UNION {ChildValues(k, kids) : k \in ChildKeys}] :
                  D \in {E \in SUBSET ChildKeys : Cardinality(E) <= MaxChildKeys}} :
     \A k \in DOMAIN f : f[k] \in ChildValues(k, kids)}

Nested(kids) == {JObj(Merge(b, c)) : b \in Bases, c \in ChildFields(kids)}

Leaves == {UriString, PlainString}
Inner ==
  {JObj(Merge(b, [k \in {"items"} |-> UriString])) : b \in {UriString.o, PlainString.o}}
    \cup {JObj([k \in {"type", "properties"} |->
             IF k = "type" THEN JStr("object") ELSE JObj([p \in {"link"} |-> UriString])])}

Schemas == Nested(Leaves \cup Inner)

\* ------------------------------------------------------- tools translation
Tool(name, description, inputSchema) ==
  [name |-> name, description |-> description, input_schema |-> inputSchema]

KeepsEveryTool(tool, excl) == TRUE

\* !EXCLUDED_TOOLS.includes(tool.name)
ToolKept(tool, excl) == tool.name \notin excl

TranslateTool(tool) ==
  [type |-> "function", name |-> tool.name, description |-> tool.description,
   parameters |-> removeUriFormat(tool.input_schema)]

\* (payload.tools || []).filter(...).map(...)
RECURSIVE TranslateTools(_, _)
TranslateTools(tools, excl) ==
  IF tools = <<>> THEN <<>>
  ELSE (IF ToolKept(Head(tools), excl) THEN <<TranslateTool(Head(tools))>> ELSE <<>>)
         \o TranslateTools(Tail(tools), excl)

\* ------------------------------------------------ non-streaming translator
\* An outbound message: hasContent says the content key is set.
OutMessage(role, hasContent, content, toolCalls, toolCallId) ==
  [role |-> role, hasContent |-> hasContent, content |-> content,
   tool_calls |-> toolCalls, tool_call_id |-> toolCallId]

\* A content block of the response; the fields a block type lacks are "".
TextBlock(text) == [type |-> "text", text |-> text, id |-> "", name |-> "", input |-> ""]
ToolUseBlock(id, name, input) ==
  [type |-> "tool_use", text |-> <<>>, id |-> id, name |-> name, input |-> input]

\* choice.finish_reason is undefined.
NoFinishReason == ""

PassesUnknownThrough(finishReason) ==
  CASE finishReason = "tool_calls" -> "tool_use"
    [] finishReason = "stop" -> "end_turn"
    [] finishReason = "length" -> "max_tokens"
    [] OTHER -> finishReason

mapStopReason(finishReason) ==
  CASE finishReason = "tool_calls" -> "tool_use"
    [] finishReason = "stop" -> "end_turn"
    [] finishReason = "length" -> "max_tokens"
    [] OTHER -> "end_turn"

\* Argument strings JSON.parse accepts; the parsed value is written as its text.
ValidJson == {"{}", "{\"location\":\"NY\"}"}

\* msg.content?.split(' ').length || 0
MessageWords(msg) == IF msg.hasContent THEN SplitLength(msg.content) ELSE 0

RECURSIVE SumWords(_)
SumWords(msgs) ==
  IF msgs = <<>> THEN 0 ELSE MessageWords(Head(msgs)) + SumWords(Tail(msgs))

\* The complete backend body: error is data.error.message ("" when absent),
\* choices holds at most the first choice, usage is <<prompt_tokens,
\* completion_tokens>> or <<>> when absent.  A choice is [hasContent, content,
\* tool_calls, finish_reason]; a tool call is [id, name, arguments].
MessageBody(content, stopReason, inputTokens, outputTokens) ==
  <<"message", content, stopReason, inputTokens, outputTokens>>

\* Only the first tool call becomes a block.
FirstToolUseOnly(toolCalls) ==
  [k \in (DOMAIN toolCalls) \cap {1} |->
     ToolUseBlock(toolCalls[k].id, toolCalls[k].name, toolCalls[k].arguments)]

ToolUseBlocks(toolCalls) ==
  [k \in DOMAIN toolCalls |->
     ToolUseBlock(toolCalls[k].id, toolCalls[k].name, toolCalls[k].arguments)]

ParsesLeniently(toolCalls) == TRUE

\* JSON.parse(toolCall.function.arguments) returns for every tool call.
ArgumentsParse(toolCalls) ==
  \A k \in DOMAIN toolCalls : toolCalls[k].arguments \in ValidJson

\* The result of the branch: <<status given to reply.code, returned body>>.
TranslateResponse(data, msgs) ==
  IF data.error # "" THEN <<500, ErrorBody(data.error)>>
  ELSE IF data.choices = <<>> THEN <<500, ErrorBody("No choices in OpenAI response")>>
  ELSE LET choice == data.choices[1]
           text == IF choice.hasContent THEN choice.content ELSE <<>>
       IN IF ~ArgumentsParse(choice.tool_calls)
            THEN <<500, ErrorBody(ParseErrorMessage)>>
          ELSE <<NoCode,
                 MessageBody(<<TextBlock(text)>> \o ToolUseBlocks(choice.tool_calls),
                             mapStopReason(choice.finish_reason),
                             IF data.usage # <<>> THEN data.usage[1] ELSE SumWords(msgs),
                             IF data.usage # <<>> THEN data.usage[2]
                             ELSE IF choice.hasContent
                               THEN SplitLength(choice.content) ELSE 0)>>

Choice(hasContent, content, toolCalls, finishReason) ==
  [hasContent |-> hasContent, content |-> content, tool_calls |-> toolCalls,
   finish_reason |-> finishReason]
BackendToolCall(id, name, arguments) == [id |-> id, name |-> name, arguments |-> arguments]
Data(error, choices, usage) == [error |-> error, choices |-> choices, usage |-> usage]

Responses ==
  {Data("model overloaded", <<>>, <<>>), Data("", <<>>, <<>>)}
    \cup {Data("", <<Choice(TRUE, t, <<>>, f)>>, u) :
            t \in {<<>>, <<"H", "i">>, <<"a", " ", "b">>},
            f \in {"stop", "length", "content_filter", NoFinishReason},
            u \in {<<>>, <<9, 4>>}}
    \cup {Data("", <<Choice(FALSE, <<>>, <<BackendToolCall("call_1", "get_weather", a)>>,
                            "tool_calls")>>, u) :
            a \in ValidJson \cup {"{\"location\":"}, u \in {<<>>, <<9, 4>>}}
    \cup {Data("", <<Choice(TRUE, <<"H", "i">>,
                            <<BackendToolCall("call_1", "get_weather", "{\"location\":\"NY\"}"),
                              BackendToolCall("call_2", "get_time", "{}")>>,
                            "tool_calls")>>, <<>>)}

\* The outbound message list of the request in flight.
Outbound ==
  {<<OutMessage("system", TRUE, <<"b", "e", " ", "k", "i", "n", "d">>, <<>>, ""),
     OutMessage("user", TRUE, <<"a", " ", "b", " ", "c">>, <<>>, ""),
     OutMessage("tool", FALSE, <<>>, <<>>, "call_1")>>}

\* ------------------------------------------------- request translation
\* A content value of the request is a string (its characters), an array of
\* blocks, or absent.
StringContent(chars) == [t |-> "text", c |-> chars]
ArrayContent(blocks) == [t |-> "blocks", b |-> blocks]
NoContent == [t |-> "absent"]

\* A block of an array: the fields its type lacks are <<>>, NoContent, "" or
\* JNull.  text is <<>> both for a missing text and for ''.
RequestBlock(type, text, content, id, name, input, toolUseId) ==
  [type |-> type, text |-> text, content |-> content, id |-> id, name |-> name,
   input |-> input, tool_use_id |-> toolUseId]

RequestMessage(role, content) == [role |-> role, content |-> content]
Payload(system, msgs) == [system |-> system, messages |-> msgs]

\* A value that is a non-empty string.
Truthy(v) == v.t = "text" /\ v.c # <<>>

\* item.text || item.content || ''
ItemText(item) ==
  IF item.text # <<>> THEN item.text
  ELSE IF Truthy(item.content) THEN item.content.c
  ELSE <<>>

\* texts.join(' ')
RECURSIVE JoinWords(_)
JoinWords(texts) ==
  IF texts = <<>> THEN <<>>
  ELSE IF Len(texts) = 1 THEN texts[1]
  ELSE texts[1] \o <<" ">> \o JoinWords(Tail(texts))

\* The result is a string or null (NoContent).
normalizeContent(content) ==
  IF content.t = "text" THEN content
  ELSE IF content.t = "blocks"
    THEN LET texts == [i \in DOMAIN content.b |-> ItemText(content.b[i])]
             joined == JoinWords(SelectSeq(texts, LAMBDA text : text # <<>>))
         IN IF joined # <<>> THEN StringContent(joined) ELSE NoContent
  ELSE NoContent

\* JSON.stringify of a tool_use input, as the tokens of its text; an absent
\* input (JNull here) gives no text.  Objects of the inputs have at most one
\* key, so the order of keys does not show.
RECURSIVE Stringify(_)
Stringify(v) ==
  CASE v.t = "str" -> <<"\"", v.s, "\"">>
    [] v.t = "obj" ->
         IF DOMAIN v.o = {} THEN <<"{", "}">>
         ELSE LET key == CHOOSE k \in DOMAIN v.o : TRUE
              IN <<"{", "\"", key, "\"", ":">> \o Stringify(v.o[key]) \o <<"}">>
    [] OTHER -> <<>>

\* One element of tool_calls: id, function.name, function.function.parameters
\* and function.arguments.
OutToolCall(block) ==
  [id |-> block.id, name |-> block.name, parameters |-> block.input,
   arguments |-> Stringify(block.input)]

\* (sysMsg.text || sysMsg.content) || ''
SystemValue(sysMsg) ==
  IF sysMsg.text # <<>> THEN StringContent(sysMsg.text)
  ELSE IF sysMsg.content.t = "blocks" \/ Truthy(sysMsg.content) THEN sysMsg.content
  ELSE StringContent(<<>>)

TranslateSystemEntry(sysMsg) ==
  LET normalized == normalizeContent(SystemValue(sysMsg))
  IN IF Truthy(normalized)
       THEN <<OutMessage("system", TRUE, normalized.c, <<>>, "")>>
     ELSE <<>>

\* payload.system && Array.isArray(payload.system)
RECURSIVE TranslateSystemEntries(_)
TranslateSystemEntries(entries) ==
  IF entries = <<>> THEN <<>>
  ELSE TranslateSystemEntry(Head(entries)) \o TranslateSystemEntries(Tail(entries))

TranslateSystem(system) ==
  IF system.t = "blocks" THEN TranslateSystemEntries(system.b) ELSE <<>>

\* content: toolResult.text || toolResult.content
ToolResultMessage(toolResult) ==
  LET value == IF toolResult.text # <<>> THEN StringContent(toolResult.text)
               ELSE toolResult.content
  IN OutMessage("tool", value.t = "text", IF value.t = "text" THEN value.c ELSE <<>>,
                <<>>, toolResult.tool_use_id)

KeepsEmptyMessage(hasContent, toolCalls) == TRUE

\* if (newMsg.content || newMsg.tool_calls) messages.push(newMsg)
MessagePushed(hasContent, toolCalls) == hasContent \/ toolCalls # <<>>

\* Array content is normalized like any other content.
WholeContent(content) == content

\* typeof msg.content === 'string' ? msg.content : ''
StringOrEmpty(content) == IF content.t = "text" THEN content ELSE StringContent(<<>>)

\* What one source message appends to the outbound list.
TranslateMessage(msg) ==
  LET blocks == IF msg.content.t = "blocks" THEN msg.content.b ELSE <<>>
      toolUses == SelectSeq(blocks, LAMBDA item : item.type = "tool_use")
      toolCalls == [k \in DOMAIN toolUses |-> OutToolCall(toolUses[k])]
      normalized == normalizeContent(StringOrEmpty(msg.content))
      hasContent == Truthy(normalized)
      toolResults == SelectSeq(blocks, LAMBDA item : item.type = "tool_result")
  IN (IF MessagePushed(hasContent, toolCalls)
        THEN <<OutMessage(msg.role, hasContent,
                          IF hasContent THEN normalized.c ELSE <<>>, toolCalls, "")>>
      ELSE <<>>)
       \o [k \in DOMAIN toolResults |-> ToolResultMessage(toolResults[k])]

\* messages.unshift(...): what a later source message appends comes first.
RECURSIVE NewestFirst(_)
NewestFirst(msgs) ==
  IF msgs = <<>> THEN <<>>
  ELSE NewestFirst(Tail(msgs)) \o TranslateMessage(Head(msgs))

RECURSIVE TranslateMessages(_)
TranslateMessages(msgs) ==
  IF msgs = <<>> THEN <<>>
  ELSE TranslateMessage(Head(msgs)) \o TranslateMessages(Tail(msgs))

TranslateRequest(p) == TranslateSystem(p.system) \o TranslateMessages(p.messages)

\* ------------------------------------------------------- the handler: Spec
\* payload.stream as the JSON value the client sent.
StreamValues == {"true", "false", "absent", "'true'", "1"}

\* if (payload.stream): every truthy value asks for streaming.
TruthyStream(v) == v \in {"true", "'true'", "1"}

\* openaiPayload.stream = (payload.stream === true)
StreamRequested(v) == v = "true"

\* Backend replies: ok is status in 200..299; text is the body of a reply
\* that is not ok; hasBody says openaiResponse.body is a stream.
Backends ==
  [ok : {TRUE}, status : {200}, text : {""}, hasBody : BOOLEAN]
    \cup [ok : {FALSE}, status : {400, 429, 500},
          text : {"upstream failure", "{\"error\":{\"message\":\"bad\"}}"},
          hasBody : {TRUE}]

NoBackend == [ok |-> FALSE, status |-> NoCode, text |-> "", hasBody |-> FALSE]

ArgStrings == {<<>>, <<"{">>, <<"{", "}">>, <<"x">>}
ToolIndexes == {NoIndex, 0, 1}

Lines ==
  {SkipLine, DoneLine, BadLine, ErrorFrame("overloaded"), NoChoicesFrame,
   UsageFrame(NoUsage), UsageFrame(7)}
    \cup {ToolFrame(<<ToolCall(i, a)>>) : i \in ToolIndexes \ {NoIndex}, a \in ArgStrings}
    \cup {ToolFrame(<<ToolCall(NoIndex, <<"{">>)>>),
          ToolFrame(<<ToolCall(0, <<"{">>), ToolCall(1, <<"{">>)>>),
          Line("frame", "", TRUE, NoUsage, TRUE, <<>>, <<"a">>, <<>>),
          Line("frame", "", TRUE, NoUsage, TRUE, <<ToolCall(1, <<"{">>)>>, <<"a">>, <<>>),
          Line("frame", "", TRUE, 3, FALSE, <<>>, <<"a">>, <<"r">>)}
    \cup {ContentFrame(t) : t \in {<<"a">>, <<"a", " ", "b">>}}
    \cup {ReasoningFrame(t) : t \in {<<"r">>, <<"r", " ", "s">>}}

HandlerInit ==
  /\ pc = "start"
  /\ stream \in StreamValues
  /\ messages \in Outbound
  /\ backend = NoBackend
  /\ isSucceeded = FALSE
  /\ streamingState = InitialStreamingState
  /\ events = <<>>
  /\ rawHead = NoCode
  /\ rawEnded = FALSE
  /\ replyCode = NoCode
  /\ replyBody = NoBody
  /\ fed = <<>>
  /\ ignored = <<>>
  /\ response = <<>>

\* await fetch(...) resolves; the handler runs on to its next await.  With a
\* 2xx reply and streaming requested that is the first reader.read(), unless
\* the body has no reader.
Fetch ==
  /\ pc = "start"
  /\ \E b \in Backends :
       /\ backend' = b
       /\ IF ~b.ok
            THEN pc' = "not_ok" /\ UNCHANGED <<replyCode, replyBody>>
          ELSE IF ~StreamRequested(stream)
            THEN pc' = "non_stream" /\ UNCHANGED <<replyCode, replyBody>>
          ELSE IF ~b.hasBody
            THEN /\ pc' = "failed"
                 /\ replyCode' = 500
                 /\ replyBody' = ErrorBody(NoReaderMessage)
          ELSE pc' = "reading" /\ UNCHANGED <<replyCode, replyBody>>
  /\ UNCHANGED <<stream, messages, isSucceeded, streamingState, events, rawHead,
                 rawEnded, fed, ignored, response>>
  /\ UNCHANGED <<schemaVars, toolVars, requestVars, concurrentVars, bodyVars>>

InternalErrorCode(b) == 500

\* reply.code(openaiResponse.status)
PassThroughCode(b) == b.status

\* !openaiResponse.ok: await text(); reply.code(status); return { error }
PassThrough ==
  /\ pc = "not_ok"
  /\ pc' = "passthrough"
  /\ replyCode' = PassThroughCode(backend)
  /\ replyBody' = ErrorBody(backend.text)
  /\ UNCHANGED <<stream, messages, backend, isSucceeded, streamingState, events,
                 rawHead, rawEnded, fed, ignored, response>>
  /\ UNCHANGED <<schemaVars, toolVars, requestVars, concurrentVars, bodyVars>>

\* !openaiPayload.stream: await json(); translate, or throw into the catch.
NonStream ==
  /\ pc = "non_stream"
  /\ \E data \in Responses :
       LET res == TranslateResponse(data, messages)
       IN /\ response' = <<data>>
          /\ replyCode' = res[1]
          /\ replyBody' = res[2]
          /\ pc' = IF res[1] = 500 THEN "failed" ELSE "returned"
  /\ UNCHANGED <<stream, messages, backend, isSucceeded, streamingState, events,
                 rawHead, rawEnded, fed, ignored>>
  /\ UNCHANGED <<schemaVars, toolVars, requestVars, concurrentVars, bodyVars>>

\* reader.read() resolves with a value: every line of the chunk is processed
\* before the next await.
ReadChunk ==
  /\ pc = "reading"
  /\ \E n \in 1..MaxChunkLines :
       /\ Len(fed) + n <= MaxLines
       /\ \E chunk \in [1..n -> Lines] :
            LET r == ProcessLines(Run(pc, isSucceeded, streamingState, events,
                                      rawHead, rawEnded, replyCode, replyBody, fed),
                                  chunk)
            IN /\ pc' = r.pc
               /\ isSucceeded' = r.isSucceeded
               /\ streamingState' = r.st
               /\ events' = r.events
               /\ rawHead' = r.rawHead
               /\ rawEnded' = r.rawEnded
               /\ replyCode' = r.replyCode
               /\ replyBody' = r.replyBody
               /\ fed' = r.fed
               /\ ignored' = SubSeq(chunk, Len(r.fed) - Len(fed) + 1, n)
  /\ UNCHANGED <<stream, messages, backend, response>>
  /\ UNCHANGED <<schemaVars, toolVars, requestVars, concurrentVars, bodyVars>>

\* reader.read() resolves with done: the loop exits and reply.raw.end() runs.
ReadEOF ==
  /\ pc = "reading"
  /\ pc' = "eof"
  /\ rawEnded' = TRUE
  /\ UNCHANGED <<stream, messages, backend, isSucceeded, streamingState, events,
                 rawHead, replyCode, replyBody, fed, ignored, response>>
  /\ UNCHANGED <<schemaVars, toolVars, requestVars, concurrentVars, bodyVars>>


ToolsIdle == excluded = {} /\ reqTools = <<>> /\ outTools = <<>>

RequestIdle == payload = Payload(NoContent, <<>>)

ConcurrentIdle == runs = <<>>

BodyIdle == bodyText = <<>> /\ pending = <<>> /\ clientClosed = FALSE /\ lateReads = 0

\* ------------------------------------------------------------- SpecSchema
\* One run of the sanitizer on a schema, and a second run on its result.
SchemaIdle == schema = JNull /\ sanitized = JNull /\ resanitized = JNull

HandlerIdle ==
  /\ stream = "absent"
  /\ messages = <<>>
  /\ backend = NoBackend
  /\ isSucceeded = FALSE
  /\ streamingState = InitialStreamingState
  /\ events = <<>>
  /\ rawHead = NoCode
  /\ rawEnded = FALSE
  /\ replyCode = NoCode
  /\ replyBody = NoBody
  /\ fed = <<>>
  /\ ignored = <<>>
  /\ response = <<>>

Sanitize ==
  /\ pc = "schema"
  /\ pc' = "sanitized"
  /\ sanitized' = removeUriFormat(schema)
  /\ UNCHANGED <<schema, resanitized, toolVars, requestVars, concurrentVars, bodyVars>>
  /\ UNCHANGED <<stream, messages, backend, isSucceeded, streamingState, events,
                 rawHead, rawEnded, replyCode, replyBody, fed, ignored, response>>

SanitizeAgain ==
  /\ pc = "sanitized"
  /\ pc' = "resanitized"
  /\ resanitized' = removeUriFormat(sanitized)
  /\ UNCHANGED <<schema, sanitized, toolVars, requestVars, concurrentVars, bodyVars>>
  /\ UNCHANGED <<stream, messages, backend, isSucceeded, streamingState, events,
                 rawHead, rawEnded, replyCode, replyBody, fed, ignored, response>>


Init ==
  HandlerInit /\ SchemaIdle /\ ToolsIdle /\ RequestIdle /\ ConcurrentIdle /\ BodyIdle

Next == Fetch \/ PassThrough \/ NonStream \/ ReadChunk \/ ReadEOF

Spec == Init /\ [][Next]_vars

SchemaInit ==
  /\ pc = "schema"
  /\ schema \in Schemas
  /\ sanitized = JNull
  /\ resanitized = JNull
  /\ HandlerIdle
  /\ ToolsIdle
  /\ RequestIdle
  /\ ConcurrentIdle
  /\ BodyIdle

SchemaNext == Sanitize \/ SanitizeAgain

SpecSchema == SchemaInit /\ [][SchemaNext]_vars

\* -------------------------------------------------------------- SpecTools
\* The tools of one request are translated.  EXCLUDED_TOOLS is imported from
\* ./types.js; the translation is run under every set of excluded names.
ToolNames == {"Read", "BatchTool", "WebSearch"}
Tools ==
  {Tool(n, "fetches a page", UriString) : n \in ToolNames}
    \cup {Tool(n, "reads a file", PlainString) : n \in ToolNames}

ToolsInit ==
  /\ pc = "tools"
  /\ excluded \in SUBSET ToolNames
  /\ reqTools \in UNION {[1..n -> Tools] : n \in 0..MaxTools}
  /\ outTools = <<>>
  /\ HandlerIdle
  /\ SchemaIdle
  /\ RequestIdle
  /\ ConcurrentIdle
  /\ BodyIdle

TranslateRequestTools ==
  /\ pc = "tools"
  /\ pc' = "tools_done"
  /\ outTools' = TranslateTools(reqTools, excluded)
  /\ UNCHANGED <<excluded, reqTools, schemaVars, requestVars, concurrentVars, bodyVars>>
  /\ UNCHANGED <<stream, messages, backend, isSucceeded, streamingState, events,
                 rawHead, rawEnded, replyCode, replyBody, fed, ignored, response>>

ToolsNext == TranslateRequestTools

SpecTools == ToolsInit /\ [][ToolsNext]_vars

\* ------------------------------------------------------------ SpecRequest
\* payload.system and payload.messages of one request are translated.
Texts == {<<>>, <<"H", "i">>, <<"a", " ", "b">>}

TextItem(text) == RequestBlock("text", text, NoContent, "", "", JNull, "")
ToolUseItem(id, name, input) == RequestBlock("tool_use", <<>>, NoContent, id, name, input, "")
ToolResultItem(toolUseId, text, content) ==
  RequestBlock("tool_result", text, content, "", "", JNull, toolUseId)

Items ==
  {TextItem(<<"x">>),
   ToolUseItem("toolu_1", "get_weather", JObj([k \in {"location"} |-> JStr("NY")])),
   ToolUseItem("toolu_4", "get_time", JObj(EmptyFields)),
   ToolResultItem("toolu_1", <<"o", "k">>, NoContent),
   ToolResultItem("toolu_2", <<>>, StringContent(<<"7", " ", "C">>)),
   ToolResultItem("toolu_3", <<>>, NoContent)}

\* Arrays of zero, one or two blocks.
ItemLists == {<<>>} \cup {<<i>> : i \in Items} \cup {<<i, j>> : i \in Items, j \in Items}

HasItem(items, type) == \E k \in DOMAIN items : items[k].type = type

\* String content comes with either role; an array comes from the assistant
\* when it holds a tool_use block and from the user otherwise.
RequestMessages ==
  {RequestMessage(role, StringContent(text)) : role \in {"user", "assistant"}, text \in Texts}
    \cup {RequestMessage(IF HasItem(items, "tool_use") THEN "assistant" ELSE "user",
                         ArrayContent(items)) : items \in ItemLists}

Systems ==
  {NoContent,
   StringContent(<<"b", "e", " ", "k", "i", "n", "d">>),
   ArrayContent(<<>>),
   ArrayContent(<<TextItem(<<"b", "e">>),
                  RequestBlock("text", <<>>, StringContent(<<"k", "i", "n", "d">>),
                               "", "", JNull, ""),
                  TextItem(<<>>),
                  RequestBlock("text", <<>>,
                               ArrayContent(<<TextItem(<<"x">>), TextItem(<<"y">>)>>),
                               "", "", JNull, "")>>)}

Payloads ==
  {Payload(system, msgs) :
     system \in Systems,
     msgs \in UNION {[1..n -> RequestMessages] : n \in 0..MaxMessages}}

RequestInit ==
  /\ pc = "request"
  /\ payload \in Payloads
  /\ HandlerIdle
  /\ SchemaIdle
  /\ ToolsIdle
  /\ ConcurrentIdle
  /\ BodyIdle

TranslateRequestMessages ==
  /\ pc = "request"
  /\ pc' = "translated"
  /\ messages' = TranslateRequest(payload)
  /\ UNCHANGED <<stream, backend, isSucceeded, streamingState, events, rawHead,
                 rawEnded, replyCode, replyBody, fed, ignored, response>>
  /\ UNCHANGED <<schemaVars, toolVars, requestVars, concurrentVars, bodyVars>>

RequestNext == TranslateRequestMessages

SpecRequest == RequestInit /\ [][RequestNext]_vars

\* --------------------------------------------------------- SpecConcurrent
\* Several streaming requests are in progress at once.  The handler is an
\* async function: between two awaits one invocation runs alone, and the
\* reads of different invocations resolve in any order.  Each request has a
\* 2xx backend reply and is at its first reader.read().
Requests == 1..MaxRequests

\* A frame with usage and content text.
TextFrame == Line("frame", "", TRUE, 3, FALSE, <<>>, <<"a">>, <<>>)

ConcurrentLines == {DoneLine, BadLine, TextFrame, ToolFrame(<<ToolCall(0, <<"{">>)>>)}

FreshRun ==
  Run("reading", FALSE, InitialStreamingState, <<>>, NoCode, FALSE, NoCode, NoBody, <<>>)

\* One isSucceeded flag and one streamingState for the whole module: every
\* invocation works on those of the first request.
WithSharedState(rs, req) ==
  [rs[req] EXCEPT !.st = rs[1].st, !.isSucceeded = rs[1].isSucceeded]

\* isSucceeded and streamingState are declared inside the handler, reply is
\* its parameter: an invocation works on its own.
HandlerRun(rs, req) == rs[req]

ConcurrentInit ==
  /\ pc = "concurrent"
  /\ runs = [req \in Requests |-> FreshRun]
  /\ HandlerIdle
  /\ SchemaIdle
  /\ ToolsIdle
  /\ RequestIdle
  /\ BodyIdle

\* reader.read() of one request resolves with a chunk.  The chunk holds one
\* line: a chunk of several lines is processed without another request
\* running in between, which is one of the orders of one-line chunks.
ConcurrentRead ==
  /\ pc = "concurrent"
  /\ \E req \in Requests :
       /\ runs[req].pc = "reading"
       /\ Len(runs[req].fed) < MaxRequestLines
       /\ \E line \in ConcurrentLines :
            runs' = [runs EXCEPT ![req] = ProcessLines(HandlerRun(runs, req), <<line>>)]
  /\ UNCHANGED <<handlerVars, schemaVars, toolVars, requestVars, bodyVars>>

\* reader.read() of one request resolves with done.
ConcurrentEOF ==
  /\ pc = "concurrent"
  /\ \E req \in Requests :
       /\ runs[req].pc = "reading"
       /\ runs' = [runs EXCEPT ![req] = [@ EXCEPT !.pc = "eof", !.rawEnded = TRUE]]
  /\ UNCHANGED <<handlerVars, schemaVars, toolVars, requestVars, bodyVars>>

ConcurrentNext == ConcurrentRead \/ ConcurrentEOF

SpecConcurrent == ConcurrentInit /\ [][ConcurrentNext]_vars

\* --------------------------------------------------------------- SpecBody
\* One streaming request whose backend body arrives as text, cut into reads
\* at any place, and whose client may close its connection while the body is
\* still arriving.  The text is a sequence of tokens: "data:", "[DONE]", the
\* newline, and "{", c, "}" for the JSON text of a frame: one whose
\* delta.content is c, or one with an error member when c is "!".
DoneText == <<"data:", "[DONE]">>
FrameText(c) == <<"data:", "{", c, "}">>
BodyLineTexts == {DoneText} \cup {FrameText(c) : c \in {"a", "b", "!"}}

\* Every line of a body ends with a newline.
RECURSIVE JoinLines(_)
JoinLines(texts) ==
  IF texts = <<>> THEN <<>> ELSE Head(texts) \o <<"\n">> \o JoinLines(Tail(texts))

Bodies ==
  {JoinLines(texts) : texts \in UNION {[1..n -> BodyLineTexts] : n \in 0..MaxBodyLines}}

\* chunk.split('\n')
RECURSIVE SplitLines(_)
SplitLines(text) ==
  IF \A k \in DOMAIN text : text[k] # "\n" THEN <<text>>
  ELSE LET cut == CHOOSE k \in DOMAIN text :
                    text[k] = "\n" /\ \A j \in 1..(k - 1) : text[j] # "\n"
       IN <<SubSeq(text, 1, cut - 1)>> \o SplitLines(SubSeq(text, cut + 1, Len(text)))

\* What the loop body makes of one line of a chunk: skipped unless it starts
\* with data:, the sentinel, a frame when JSON.parse accepts the rest.
ParseLine(text) ==
  IF text = <<>> \/ Head(text) # "data:" THEN SkipLine
  ELSE LET dataStr == Tail(text)
       IN IF dataStr = <<"[DONE]">> THEN DoneLine
          ELSE IF Len(dataStr) = 3 /\ dataStr[1] = "{" /\ dataStr[3] = "}"
                    /\ dataStr[2] \in {"a", "b", "!"}
            THEN IF dataStr[2] = "!" THEN ErrorFrame("overloaded")
                 ELSE ContentFrame(<<dataStr[2]>>)
          ELSE BadLine

ChunkLines(chunk) ==
  LET texts == SplitLines(chunk) IN [k \in DOMAIN texts |-> ParseLine(texts[k])]

BodyInit ==
  /\ pc = "body"
  /\ bodyText \in Bodies
  /\ pending = bodyText
  /\ clientClosed = FALSE
  /\ lateReads = 0
  /\ runs = <<FreshRun>>
  /\ HandlerIdle
  /\ SchemaIdle
  /\ ToolsIdle
  /\ RequestIdle

\* reader.read() resolves with the next bytes of the body, however many; the
\* loop has no test of the client's connection.
ReadBytes ==
  /\ pc = "body"
  /\ runs[1].pc = "reading"
  /\ pending # <<>>
  /\ \E n \in 1..Len(pending) :
       /\ runs' = <<ProcessLines(runs[1], ChunkLines(SubSeq(pending, 1, n)))>>
       /\ pending' = SubSeq(pending, n + 1, Len(pending))
  /\ lateReads' = lateReads + (IF clientClosed THEN 1 ELSE 0)
  /\ UNCHANGED <<bodyText, clientClosed>>
  /\ UNCHANGED <<handlerVars, schemaVars, toolVars, requestVars>>

\* reader.read() resolves with done after the last byte.
BodyEOF ==
  /\ pc = "body"
  /\ runs[1].pc = "reading"
  /\ pending = <<>>
  /\ runs' = <<[runs[1] EXCEPT !.pc = "eof", !.rawEnded = TRUE]>>
  /\ lateReads' = lateReads + (IF clientClosed THEN 1 ELSE 0)
  /\ UNCHANGED <<bodyText, pending, clientClosed>>
  /\ UNCHANGED <<handlerVars, schemaVars, toolVars, requestVars>>

\* The client goes away while the response is in progress.  The handler has
\* no listener for it.
ClientDisconnect ==
  /\ pc = "body"
  /\ runs[1].pc = "reading"
  /\ ~clientClosed
  /\ clientClosed' = TRUE
  /\ UNCHANGED <<bodyText, pending, lateReads, runs>>
  /\ UNCHANGED <<handlerVars, schemaVars, toolVars, requestVars>>

BodyNext == ReadBytes \/ BodyEOF \/ ClientDisconnect

SpecBody == BodyInit /\ [][BodyNext]_vars

\* The same request when the backend keeps delivering its body up to the
\* end: every reader.read() the handler waits on is resolved.  Nothing makes
\* the client disconnect.
SpecBodyLive == BodyInit /\ [][BodyNext]_vars /\ WF_vars(ReadBytes \/ BodyEOF)

\* ------------------------------------------------------------------ claims
Positions(type) == {k \in DOMAIN events : events[k].type = type}
PositionsAt(type, idx) == {k \in Positions(type) : events[k].index = idx}
Count(type) == Cardinality(Positions(type))
OpenedIndexes == {events[k].index : k \in Positions("content_block_start")}
BlockIndexes == {ToolIndex(ToolCall(i, <<>>)) : i \in ToolIndexes}

IsFrame(line) == line.kind = "frame" /\ line.error = ""
\* The frame reaches the delta handling and carries content of some kind.
StreamsContent(line) ==
  /\ IsFrame(line) /\ line.hasChoices
  /\ \/ line.hasToolCalls /\ line.toolCalls # <<>>
     \/ ~line.hasToolCalls /\ (line.content # <<>> \/ line.reasoning # <<>>)
DoneAt(k) == k \in DOMAIN fed /\ fed[k].kind = "done"

\* C1: every content-block index that was opened has its content_block_start
\* before each of its content_block_delta events, and, once the sentinel has
\* been processed, exactly one content_block_stop that comes after all of them.
C1_BlocksClosed ==
  \A idx \in OpenedIndexes :
    LET first == CHOOSE k \in PositionsAt("content_block_start", idx) :
                   \A j \in PositionsAt("content_block_start", idx) : k <= j
    IN /\ \A d \in PositionsAt("content_block_delta", idx) : first < d
       /\ pc = "finalized" =>
            /\ Cardinality(PositionsAt("content_block_stop", idx)) = 1
            /\ \A e \in PositionsAt("content_block_stop", idx) :
                 \A k \in PositionsAt("content_block_start", idx)
                            \cup PositionsAt("content_block_delta", idx) : k < e

\* C2: a streaming response whose output was ended after a 2xx backend reply
\* holds exactly one message_start, first, and exactly one message_stop, last.
C2_Bracketed ==
  (backend.ok /\ rawEnded) =>
    /\ Count("message_start") = 1
    /\ Count("message_stop") = 1
    /\ events[1] = MessageStart
    /\ events[Len(events)] = MessageStop

\* C3: once the sentinel has been processed after a frame that streamed
\* content, reasoning or a tool call, the output holds exactly one
\* message_delta directly followed by the one message_stop, which is the last
\* event; the output is ended, the handler has returned and no line after the
\* sentinel has been processed.
C3_Finalization ==
  \A k \in DOMAIN fed :
    (DoneAt(k) /\ \E j \in 1..(k - 1) : StreamsContent(fed[j])) =>
      /\ Count("message_delta") = 1
      /\ Count("message_stop") = 1
      /\ events[Len(events) - 1].type = "message_delta"
      /\ events[Len(events)] = MessageStop
      /\ rawEnded
      /\ pc = "finalized"
      /\ k = Len(fed)

C3_Witness ==
  /\ pc = "finalized"
  /\ ignored # <<>>
  /\ \E j \in 1..(Len(fed) - 1) : StreamsContent(fed[j])

\* The argument strings of the tool-call deltas for idx, in arrival order.
RECURSIVE ArgsOfCalls(_, _)
ArgsOfCalls(calls, idx) ==
  IF calls = <<>> THEN <<>>
  ELSE (IF ToolIndex(Head(calls)) = idx THEN <<Head(calls).args>> ELSE <<>>)
         \o ArgsOfCalls(Tail(calls), idx)

RECURSIVE ArgsFed(_, _)
ArgsFed(lines, idx) ==
  IF lines = <<>> THEN <<>>
  ELSE (IF IsFrame(Head(lines)) /\ Head(lines).hasChoices /\ Head(lines).hasToolCalls
          THEN ArgsOfCalls(Head(lines).toolCalls, idx) ELSE <<>>)
         \o ArgsFed(Tail(lines), idx)

IsPrefix(a, b) == Len(a) <= Len(b) /\ SubSeq(b, 1, Len(a)) = a
Previous(seq, k) == IF k = 1 THEN <<>> ELSE seq[k - 1]
Cumulative(seq) == \A k \in 2..Len(seq) : IsPrefix(seq[k - 1], seq[k])
Growths(seq) == {k \in DOMAIN seq : Len(seq[k]) > Len(Previous(seq, k))}

RECURSIVE JsonDeltas(_, _)
JsonDeltas(evs, idx) ==
  IF evs = <<>> THEN <<>>
  ELSE (IF /\ Head(evs).type = "content_block_delta"
           /\ Head(evs).kind = "input_json_delta"
           /\ Head(evs).index = idx
          THEN <<Head(evs).text>> ELSE <<>>)
         \o JsonDeltas(Tail(evs), idx)

\* C4: when the argument strings that arrived for one tool-call index are
\* cumulative (each extends the one before), the partial_json payloads emitted
\* for that index concatenate to the last argument string, and exactly the
\* frames whose string is longer than the one before emitted a delta.
C4_DeltasSumToArguments ==
  \A idx \in BlockIndexes :
    LET args == ArgsFed(fed, idx)
        deltas == JsonDeltas(events, idx)
    IN Cumulative(args) =>
         /\ Concat(deltas) = (IF args = <<>> THEN <<>> ELSE args[Len(args)])
         /\ Len(deltas) = Cardinality(Growths(args))

C4_Witness ==
  LET args == ArgsFed(fed, 0)
  IN /\ Len(args) = 3
     /\ Cumulative(args)
     /\ Cardinality(Growths(args)) = 2
     /\ Len(args[3]) = 2

\* Only tool-call delta frames for index 0, their arguments growing from the
\* empty string to a non-empty string, then the sentinel.
ToolOnlyReply ==
  /\ Len(fed) >= 2
  /\ fed[Len(fed)].kind = "done"
  /\ \A k \in 1..(Len(fed) - 1) :
       /\ StreamsContent(fed[k])
       /\ fed[k].hasToolCalls
       /\ fed[k].content = <<>> /\ fed[k].reasoning = <<>>
       /\ \A c \in DOMAIN fed[k].toolCalls : ToolIndex(fed[k].toolCalls[c]) = 0
  /\ Cumulative(ArgsFed(fed, 0))
  /\ ArgsFed(fed, 0)[Len(ArgsFed(fed, 0))] # <<>>

\* C5: a reply of tool-call deltas for index 0 and the sentinel is written as
\* message_start, ping, content_block_start(tool_use, 0), one or more
\* content_block_delta(input_json_delta, 0), content_block_stop(0),
\* message_delta(tool_use), message_stop, and nothing else.
C5_ToolScenario ==
  ToolOnlyReply =>
    LET n == Len(events)
    IN /\ n >= 7
       /\ events[1] = MessageStart
       /\ events[2] = Ping
       /\ events[3] = ContentBlockStart(0, "tool_use")
       /\ \A k \in 4..(n - 3) :
            /\ events[k].type = "content_block_delta"
            /\ events[k].kind = "input_json_delta"
            /\ events[k].index = 0
       /\ events[n - 2] = ContentBlockStop(0)
       /\ events[n - 1].type = "message_delta"
       /\ events[n - 1].kind = "tool_use"
       /\ events[n] = MessageStop

C5_Witness == ToolOnlyReply /\ Len(fed) = 3 /\ Len(events) = 8

\* The request failed on a fatal condition met before any frame had parsed:
\* no reader, or a line that does not parse or carries an error field.
FatalBeforeAnyFrame ==
  /\ StreamRequested(stream)
  /\ pc = "failed"
  /\ \A k \in 1..(Len(fed) - 1) : fed[k].kind = "skip"
  /\ fed # <<>> => (fed[Len(fed)].kind = "bad" \/ fed[Len(fed)].error # "")

FatalMessage ==
  IF fed = <<>> THEN NoReaderMessage
  ELSE IF fed[Len(fed)].kind = "bad" THEN ParseErrorMessage
  ELSE fed[Len(fed)].error

\* C6: a streaming request that fails before message_start was written (no
\* reader, or an unparseable or error-carrying line before any frame parsed)
\* has written no SSE event and replies {error: message} with status 500.
C6_CleanError ==
  (/\ StreamRequested(stream)
   /\ pc = "failed"
   /\ (Count("message_start") = 0 \/ FatalBeforeAnyFrame)) =>
    /\ events = <<>>
    /\ rawHead = NoCode
    /\ ~rawEnded
    /\ replyCode = 500
    /\ replyBody = ErrorBody(FatalMessage)

C6_Witness ==
  /\ FatalBeforeAnyFrame
  /\ Len(fed) = 2
  /\ fed[2].error # ""

\* C7: a body that reaches EOF without the sentinel ends the request with an
\* error outcome (an error status, an error body, an error event or an output
\* left unended), not the way a completed stream ends.
C7_EofIsAbort ==
  pc = "eof" =>
    \/ replyCode # NoCode
    \/ replyBody # NoBody
    \/ ~rawEnded
    \/ Count("error") > 0

\* The body the reply would have if the backend's text were passed on as it is.
RawBody(text) == <<"raw", text>>

C9_ExcludedToolsDropped ==
  pc = "tools_done" =>
    LET kept == {i \in DOMAIN reqTools : reqTools[i].name \notin excluded}
        rank(i) == Cardinality({j \in kept : j <= i})
    IN /\ \A k \in DOMAIN outTools : outTools[k].name \notin excluded
       /\ Len(outTools) = Cardinality(kept)
       /\ \A i \in kept :
            /\ outTools[rank(i)].name = reqTools[i].name
            /\ outTools[rank(i)].description = reqTools[i].description

C9_Witness ==
  /\ pc = "tools_done"
  /\ Len(reqTools) = 3
  /\ reqTools[1] = reqTools[3]
  /\ reqTools[2].name \in excluded
  /\ Len(outTools) = 2

\* C10: running removeUriFormat on its own result changes nothing.
C10_Idempotent == pc = "resanitized" => resanitized = sanitized

\* ---- C11
\* The sub-schemas of an object that a JSON-schema reader looks into: the
\* values under properties, the value or elements under items and
\* additionalProperties, the elements under anyOf, allOf and oneOf.
SchemaChildren(x) ==
  UNION {LET v == x.o[key]
         IN IF key = "properties" /\ v.t = "obj" THEN {v.o[p] : p \in DOMAIN v.o}
            ELSE IF key \in {"items", "additionalProperties"} /\ v.t = "obj" THEN {v}
            ELSE IF key \in {"items", "anyOf", "allOf", "oneOf"} /\ v.t = "arr"
              THEN {v.a[i] : i \in DOMAIN v.a}
            ELSE {} :
         key \in DOMAIN x.o}

RECURSIVE HasUriFormat(_)
HasUriFormat(x) ==
  /\ x.t = "obj"
  /\ \/ HasString(x, "type", "string") /\ HasString(x, "format", "uri")
     \/ \E child \in SchemaChildren(x) : HasUriFormat(child)

\* C11: after one application of removeUriFormat no schema object reachable
\* through properties, items, additionalProperties, anyOf, allOf or oneOf has
\* both type "string" and format "uri".
C11_NoUriFormatLeft == pc = "sanitized" => ~HasUriFormat(sanitized)

\* ---- C12
\* The request has no system entries and exactly one message, from the user,
\* with string content.
SingleUserText ==
  /\ payload.system = NoContent
  /\ Len(payload.messages) = 1
  /\ payload.messages[1].role = "user"
  /\ payload.messages[1].content.t = "text"

\* The outbound list is exactly one user message with the given text.
SoleUserMessage(text) ==
  /\ Len(messages) = 1
  /\ messages[1].role = "user"
  /\ messages[1].hasContent
  /\ messages[1].content = text
  /\ messages[1].tool_calls = <<>>

\* C12 as stated: a request with exactly one user message with string content
\* and no system entries gives an outbound list with exactly one element, of
\* role user and with the same text, for every text value.
C12_SingleUserMessage ==
  (pc = "translated" /\ SingleUserText) => SoleUserMessage(payload.messages[1].content.c)

\* C12 amended: that holds for every non-empty text; for the empty string
\* nothing is appended and the outbound list is empty.
C12_SingleNonEmptyUserMessage ==
  (pc = "translated" /\ SingleUserText) =>
    IF payload.messages[1].content.c # <<>>
      THEN SoleUserMessage(payload.messages[1].content.c)
    ELSE messages = <<>>

C12_Witness ==
  /\ pc = "translated"
  /\ SingleUserText
  /\ payload.messages[1].content.c = <<"a", " ", "b">>
  /\ SoleUserMessage(<<"a", " ", "b">>)

\* ---- C13
\* The handler went down the streaming path: it asked for the reader.
StreamingTaken ==
  \/ pc \in {"reading", "finalized", "eof"}
  \/ fed # <<>>
  \/ replyBody = ErrorBody(NoReaderMessage)

\* The handler went into the non-streaming branch.
NonStreamTaken == pc = "non_stream" \/ response # <<>>

\* C13: the streaming path is taken exactly when payload.stream is the boolean
\* true and the backend status is successful; for every other stream value a
\* successful backend reply goes to the non-streaming translator, whose result
\* is the reply, and no SSE event is written.
C13_StreamOnlyOnTrue ==
  pc # "start" =>
    /\ StreamingTaken <=> (stream = "true" /\ backend.ok)
    /\ stream # "true" => events = <<>> /\ rawHead = NoCode /\ ~rawEnded
    /\ (stream # "true" /\ backend.ok) =>
         /\ NonStreamTaken
         /\ pc # "non_stream" =>
              <<replyCode, replyBody>> = TranslateResponse(response[1], messages)

C13_Witness ==
  /\ stream = "'true'"
  /\ backend.ok
  /\ pc = "returned"
  /\ replyBody[1] = "message"
  /\ events = <<>>

\* ---- C14
\* The non-streaming branch has read the backend body data.
NonStreamRead(data) == response = <<data>> /\ pc \in {"failed", "returned"}

InvalidArguments(data) ==
  /\ data.choices # <<>>
  /\ \E k \in DOMAIN data.choices[1].tool_calls :
       data.choices[1].tool_calls[k].arguments \notin ValidJson

\* C14: in the non-streaming path a 2xx body that carries an error field, has
\* no first choice, or holds a tool call whose arguments are not valid JSON is
\* answered with status 500 and the body {error: message}; no Format-A
\* response is returned.
C14_NonStreamFailure ==
  \A data \in Responses :
    (NonStreamRead(data) /\ (data.error # "" \/ data.choices = <<>> \/ InvalidArguments(data))) =>
      /\ pc = "failed"
      /\ replyCode = 500
      /\ Len(replyBody) = 2
      /\ replyBody[1] = "error"
      /\ replyBody[2] = (IF data.error # "" THEN data.error
                         ELSE IF data.choices = <<>> THEN "No choices in OpenAI response"
                         ELSE ParseErrorMessage)
      /\ events = <<>>

C14_Witness ==
  /\ response # <<>>
  /\ InvalidArguments(response[1])
  /\ pc = "failed"
  /\ replyCode = 500
  /\ replyBody = ErrorBody(ParseErrorMessage)

\* ---- C15
\* The non-streaming branch returned a Format-A message for a body whose first
\* choice has the given finish_reason.
ReturnedFor(finishReason) ==
  /\ pc = "returned"
  /\ response # <<>>
  /\ response[1].choices[1].finish_reason = finishReason
  /\ replyBody[1] = "message"

\* C15: the mapping from finish_reason to stop_reason is total: tool_calls
\* gives tool_use, stop gives end_turn, length gives max_tokens, and every
\* other value, an absent one too, gives end_turn and raises no error.
C15_StopReasonTotal ==
  \A data \in Responses :
    (NonStreamRead(data) /\ data.error = "" /\ data.choices # <<>> /\ ~InvalidArguments(data)) =>
      /\ ReturnedFor(data.choices[1].finish_reason)
      /\ replyCode = NoCode
      /\ ReturnedFor("tool_calls") => replyBody[3] = "tool_use"
      /\ ReturnedFor("stop") => replyBody[3] = "end_turn"
      /\ ReturnedFor("length") => replyBody[3] = "max_tokens"
      /\ data.choices[1].finish_reason \notin {"tool_calls", "stop", "length"} =>
           replyBody[3] = "end_turn"

C15_Witness == ReturnedFor(NoFinishReason) /\ replyBody[3] = "end_turn"

\* ---- C16
\* The line is a parsed frame with a tool-call delta, content text or
\* reasoning text.
CarriesContent(line) ==
  /\ IsFrame(line)
  /\ line.toolCalls # <<>> \/ line.content # <<>> \/ line.reasoning # <<>>

\* C16: message_start and ping are written only once a parsed frame has
\* carried a tool-call delta, content text or reasoning text; frames that
\* parse but carry none of these do not open the stream, so a fatal condition
\* after only such frames is answered with status 500 and a JSON error, with
\* no SSE event written.
C16_OpensOnContent ==
  /\ (Count("message_start") > 0 \/ Count("ping") > 0 \/ rawHead # NoCode) =>
       \E k \in DOMAIN fed : CarriesContent(fed[k])
  /\ (/\ StreamRequested(stream)
      /\ pc = "failed"
      /\ \A k \in DOMAIN fed : ~CarriesContent(fed[k])) =>
       /\ events = <<>>
       /\ rawHead = NoCode
       /\ replyCode = 500
       /\ replyBody # NoBody
       /\ replyBody[1] = "error"

\* ---- C17
\* The read loop threw on its last line (an unparseable line, an error frame
\* or a frame without choices) after message_start had been written.
FatalAfterStart ==
  /\ StreamRequested(stream)
  /\ pc = "failed"
  /\ fed # <<>>
  /\ Count("message_start") > 0

\* C17: when a fatal condition is met after message_start was written, the
\* handler is done with the stream: the output channel is ended (and, the
\* handler having stopped, no further SSE event is written).
C17_FatalClosesStream == FatalAfterStart => rawEnded

\* ---- C18
\* The frames processed so far that reached the handling of their delta.
DeltaFrames == {k \in DOMAIN fed : IsFrame(fed[k]) /\ fed[k].hasChoices}

\* The block indexes of the tool-call deltas processed so far.
ToolDeltaIndexes ==
  UNION {{ToolIndex(fed[k].toolCalls[j]) : j \in DOMAIN fed[k].toolCalls} :
           k \in {d \in DeltaFrames : fed[d].hasToolCalls}}

\* A content or reasoning delta has been processed: the text block is open.
TextOpened ==
  \E k \in DeltaFrames :
    ~fed[k].hasToolCalls /\ (fed[k].content # <<>> \/ fed[k].reasoning # <<>>)

StoppedIndexes == {events[k].index : k \in Positions("content_block_stop")}

\* C18: at the sentinel the indexes that get a content_block_stop are every
\* key of toolCallAccumulators, once each, if a tool-call delta was seen;
\* otherwise index 0 alone if the text block is open; otherwise none.  The
\* stops come before message_delta.
C18_StopsAtSentinel ==
  pc = "finalized" =>
    /\ DOMAIN streamingState.toolCallAccumulators = ToolDeltaIndexes
    /\ streamingState.textBlockStarted <=> TextOpened
    /\ StoppedIndexes = (IF ToolDeltaIndexes # {} THEN ToolDeltaIndexes
                         ELSE IF TextOpened THEN {0}
                         ELSE {})
    /\ Count("content_block_stop") = Cardinality(StoppedIndexes)
    /\ \A k \in Positions("content_block_stop") :
         \A m \in Positions("message_delta") : k < m

C18_Witness ==
  /\ pc = "finalized"
  /\ TextOpened
  /\ ToolDeltaIndexes = {1}
  /\ StoppedIndexes = {1}

\* ---- C19
\* The message_delta events written so far.
MessageDeltas == {events[k] : k \in Positions("message_delta")}

\* C19: the stop_reason of the message_delta is tool_use exactly when a
\* tool-call delta was processed before the sentinel, and end_turn otherwise
\* (only content or reasoning, or no frame at all).
C19_StopReason ==
  pc = "finalized" =>
    /\ MessageDeltas # {}
    /\ \A e \in MessageDeltas :
         /\ e.kind = "tool_use" <=> ToolDeltaIndexes # {}
         /\ e.kind = "end_turn" <=> ToolDeltaIndexes = {}

C19_Witness ==
  /\ pc = "finalized"
  /\ TextOpened
  /\ ToolDeltaIndexes = {}
  /\ \E e \in MessageDeltas : e.kind = "end_turn"

\* ---- C20
\* The parsed frames processed so far that carried a usage object.
UsageFrames == {k \in DOMAIN fed : IsFrame(fed[k]) /\ fed[k].usage # NoUsage}

LastUsage == fed[CHOOSE k \in UsageFrames : \A j \in UsageFrames : j <= k].usage

\* C20: when frames before the sentinel carried usage, output_tokens of the
\* message_delta is the completion-token count of the last of them.
C20_LastUsageWins ==
  (pc = "finalized" /\ UsageFrames # {}) =>
    /\ MessageDeltas # {}
    /\ \A e \in MessageDeltas : e.tokens = LastUsage

C20_Witness ==
  /\ pc = "finalized"
  /\ Len(fed) = 3
  /\ fed[1].usage = 7
  /\ fed[2].usage = 3
  /\ \E e \in MessageDeltas : e.tokens = 3

\* ---- C21
\* The number of whitespace-separated words of a text: its maximal runs of
\* characters other than the space; none for the empty text.
RECURSIVE WordCount(_)
WordCount(s) ==
  IF s = <<>> THEN 0
  ELSE (IF Head(s) # " " /\ (Len(s) = 1 \/ s[2] = " ") THEN 1 ELSE 0) + WordCount(Tail(s))

\* C21: when no frame carried usage, output_tokens of the message_delta is
\* the number of words of accumulatedContent plus the number of words of
\* accumulatedReasoning, an empty accumulator counting 0 (a stream of
\* tool-call deltas alone reports 0).
C21_WordCountFallback ==
  (pc = "finalized" /\ UsageFrames = {}) =>
    \A e \in MessageDeltas :
      e.tokens = WordCount(streamingState.accumulatedContent)
                   + WordCount(streamingState.accumulatedReasoning)

\* ---- C22
\* The content texts of the frames processed so far, in order.
ContentsFed ==
  LET frames == SelectSeq(fed, LAMBDA line :
                                 IsFrame(line) /\ line.hasChoices /\ line.content # <<>>)
  IN [k \in DOMAIN frames |-> frames[k].content]

\* The payloads of the deltas of one type written so far, in order.
DeltaTexts(deltaType) ==
  LET deltas == SelectSeq(events, LAMBDA e :
                                    e.type = "content_block_delta" /\ e.kind = deltaType)
  IN [k \in DOMAIN deltas |-> deltas[k].text]

TextDeltaIndexes ==
  {events[k].index : k \in {p \in Positions("content_block_delta") :
                              events[p].kind = "text_delta"}}

\* C22: every frame with non-empty content text has that text appended to
\* accumulatedContent and written as one text_delta at index 0, also when the
\* frame carries tool-call deltas or reasoning text as well.
C22_ContentAlwaysStreamed ==
  /\ DeltaTexts("text_delta") = ContentsFed
  /\ streamingState.accumulatedContent = Concat(ContentsFed)
  /\ TextDeltaIndexes \subseteq {0}

\* ---- C23
TextStarts == {k \in Positions("content_block_start") : events[k].kind = "text"}

TextualDeltas ==
  {k \in Positions("content_block_delta") :
     events[k].kind \in {"text_delta", "thinking_delta"}}

\* C23: content and reasoning deltas share one text block at index 0: however
\* content and reasoning frames interleave, exactly one content_block_start of
\* type text is written, for index 0 and right before the first delta of
\* either kind; every text_delta and thinking_delta is written against index
\* 0, and no content_block_stop of index 0 comes between them.
C23_SharedTextBlock ==
  /\ Cardinality(TextStarts) = (IF TextOpened THEN 1 ELSE 0)
  /\ \A s \in TextStarts :
       /\ events[s].index = 0
       /\ s + 1 \in TextualDeltas
       /\ \A d \in TextualDeltas : s < d
  /\ TextualDeltas # {} <=> TextOpened
  /\ \A d \in TextualDeltas :
       /\ events[d].index = 0
       /\ \A p \in PositionsAt("content_block_stop", 0) : d < p

C23_Witness ==
  /\ Len(DeltaTexts("text_delta")) = 2
  /\ Len(DeltaTexts("thinking_delta")) = 1
  /\ events[Len(events)].kind = "text_delta"
  /\ events[Len(events) - 1].kind = "thinking_delta"
  /\ Cardinality(TextStarts) = 1

\* ---- C24
\* The keys under which removeUriFormat is meant to look for sub-schemas.
SchemaKeys == {"properties", "items", "additionalProperties", "anyOf", "allOf", "oneOf"}

\* C24: removeUriFormat changes nothing but the format key of string/uri
\* objects reached through the schema keys: every key of the schema other
\* than a removed format is kept, and the value under a key that is not a
\* schema key (default, const, enum, examples) is returned as it was, also
\* when it looks like {type: "string", format: "uri"}.
C24_OtherKeysUntouched ==
  (pc = "sanitized" /\ schema.t = "obj") =>
    /\ sanitized.t = "obj"
    /\ (DOMAIN schema.o) \ {"format"} \subseteq DOMAIN sanitized.o
    /\ DOMAIN sanitized.o \subseteq DOMAIN schema.o
    /\ \A key \in (DOMAIN schema.o) \ (SchemaKeys \cup {"format"}) :
         sanitized.o[key] = schema.o[key]

\* ---- C25
\* C25: every message of the outbound list, whatever its role, has non-empty
\* content or at least one tool call, for every request, those with
\* tool_result blocks of empty or absent text and content included.
C25_NoEmptyOutboundMessage ==
  pc = "translated" =>
    \A k \in DOMAIN messages :
      \/ messages[k].hasContent /\ messages[k].content # <<>>
      \/ messages[k].tool_calls # <<>>

\* ---- C26
\* The blocks of one type in a source message, in block order.
BlocksOf(msg, type) ==
  IF msg.content.t = "blocks"
    THEN SelectSeq(msg.content.b, LAMBDA item : item.type = type)
  ELSE <<>>

\* 1 when the source message gets an entry of its own, 0 otherwise.
OwnEntries(msg) ==
  IF (msg.content.t = "text" /\ msg.content.c # <<>>) \/ BlocksOf(msg, "tool_use") # <<>>
    THEN 1 ELSE 0

Contribution(msg) == OwnEntries(msg) + Len(BlocksOf(msg, "tool_result"))

SystemCount == Cardinality({k \in DOMAIN messages : messages[k].role = "system"})

\* The number of outbound messages before those of source message i.
RECURSIVE Offset(_)
Offset(i) ==
  IF i = 1 THEN SystemCount
  ELSE Offset(i - 1) + Contribution(payload.messages[i - 1])

\* C26: the outbound messages of source message i come before those of source
\* message j when i < j; those of one source message are its own entry, if it
\* has one, and then one role "tool" message per tool_result block, in block
\* order, whose tool_call_id is the block's tool_use_id; the entry's tool_calls
\* has one element per tool_use block, in block order.
C26_OrderPreserved ==
  pc = "translated" =>
    /\ Len(messages) = Offset(Len(payload.messages) + 1)
    /\ \A i \in DOMAIN payload.messages :
         LET msg == payload.messages[i]
             toolUses == BlocksOf(msg, "tool_use")
             toolResults == BlocksOf(msg, "tool_result")
             own == Offset(i) + 1
         IN /\ OwnEntries(msg) = 1 =>
                 /\ messages[own].role = msg.role
                 /\ messages[own].tool_call_id = ""
                 /\ Len(messages[own].tool_calls) = Len(toolUses)
                 /\ \A k \in DOMAIN toolUses :
                      /\ messages[own].tool_calls[k].id = toolUses[k].id
                      /\ messages[own].tool_calls[k].name = toolUses[k].name
            /\ \A k \in DOMAIN toolResults :
                 /\ messages[Offset(i) + OwnEntries(msg) + k].role = "tool"
                 /\ messages[Offset(i) + OwnEntries(msg) + k].tool_call_id
                      = toolResults[k].tool_use_id

C26_Witness ==
  /\ pc = "translated"
  /\ Len(payload.messages) = 2
  /\ Len(BlocksOf(payload.messages[1], "tool_use")) = 2
  /\ payload.messages[1].content.b[1].id # payload.messages[1].content.b[2].id
  /\ Len(BlocksOf(payload.messages[2], "tool_result")) = 2
  /\ payload.messages[2].content.b[1].tool_use_id # payload.messages[2].content.b[2].tool_use_id
  /\ Len(messages) = 3

\* ---- C27
\* The outbound messages that come from source message i.
Derived(i) == SubSeq(messages, Offset(i) + 1, Offset(i + 1))

OnlyTextBlocks(msg) ==
  /\ msg.content.t = "blocks"
  /\ \A k \in DOMAIN msg.content.b : msg.content.b[k].type = "text"

Returned == pc = "returned" /\ response # <<>> /\ replyBody[1] = "message"

\* C28: the content of the non-streaming response is a text block (the
\* backend message content, or the empty string when that is absent) followed
\* by one tool_use block per backend tool call, in the backend's order, and
\* nothing else.
C28_ContentBlocks ==
  Returned =>
    LET choice == response[1].choices[1]
        blocks == replyBody[2]
    IN /\ Len(blocks) = 1 + Len(choice.tool_calls)
       /\ blocks[1].type = "text"
       /\ blocks[1].text = (IF choice.hasContent THEN choice.content ELSE <<>>)
       /\ \A k \in DOMAIN choice.tool_calls :
            /\ blocks[k + 1].type = "tool_use"
            /\ blocks[k + 1].id = choice.tool_calls[k].id
            /\ blocks[k + 1].name = choice.tool_calls[k].name
            /\ blocks[k + 1].input = choice.tool_calls[k].arguments

C28_Witness ==
  /\ Returned
  /\ Len(response[1].choices[1].tool_calls) = 2
  /\ Len(replyBody[2]) = 3
  /\ replyBody[2][2].id = "call_1"
  /\ replyBody[2][3].id = "call_2"

\* ---- C29
\* The words of the contents of a list of outbound messages; a message
\* without content has none.
RECURSIVE WordsOf(_)
WordsOf(msgs) ==
  IF msgs = <<>> THEN 0
  ELSE (IF Head(msgs).hasContent THEN WordCount(Head(msgs).content) ELSE 0)
         + WordsOf(Tail(msgs))

\* C29: the usage of the non-streaming response is the backend's prompt and
\* completion counts when the backend gave usage; otherwise input_tokens is
\* the number of words of all outbound messages and output_tokens the number
\* of words of the response text, 0 for an empty or absent text.
C29_NonStreamUsage ==
  Returned =>
    LET data == response[1]
        choice == data.choices[1]
    IN IF data.usage # <<>>
         THEN replyBody[4] = data.usage[1] /\ replyBody[5] = data.usage[2]
       ELSE /\ replyBody[4] = WordsOf(messages)
            /\ replyBody[5] = (IF choice.hasContent THEN WordCount(choice.content) ELSE 0)

\* ---- C30
\* What a request that is alone would have written and stored after the
\* lines this request has processed.
Alone(req) == ProcessLines(FreshRun, runs[req].fed)

\* C30: with several streaming requests in progress, each request has its own
\* streaming state and stream-opened flag, and the events written to its
\* client are a function of its own backend lines alone: they are what the
\* request would have written had it been the only one.
C30_RequestsIsolated ==
  pc = "concurrent" =>
    \A req \in Requests :
      /\ runs[req].events = Alone(req).events
      /\ runs[req].st = Alone(req).st
      /\ runs[req].isSucceeded = Alone(req).isSucceeded
      /\ runs[req].rawHead = Alone(req).rawHead
      /\ runs[req].replyBody = Alone(req).replyBody

C30_Witness ==
  /\ pc = "concurrent"
  /\ runs[1].fed = <<TextFrame>>
  /\ runs[2].fed = <<ToolFrame(<<ToolCall(0, <<"{">>)>>), DoneLine>>
  /\ runs[1].pc = "reading"
  /\ runs[2].pc = "finalized"
  /\ runs[1].st.textBlockStarted
  /\ ~runs[2].st.textBlockStarted

\* ---- C31
\* C31: once the client has disconnected from a streaming response in
\* progress, the handler stops reading from the backend body: apart from the
\* one read that was already waiting, no read resolves in the handler
\* afterwards.
C31_StopsOnDisconnect == pc = "body" => lateReads <= 1

\* ---- C32
\* The outcome when the whole body arrives in one read, followed by the end
\* of the body.
OneRead ==
  LET r == ProcessLines(FreshRun, ChunkLines(bodyText))
  IN IF r.pc = "reading" THEN [r EXCEPT !.pc = "eof", !.rawEnded = TRUE] ELSE r

\* C32: the events written for a backend body, and the final outcome, do not
\* depend on how the body is cut into reads: they are those of the body
\* delivered in one read.
C32_PartitionIndependent ==
  (pc = "body" /\ runs[1].pc # "reading") =>
    /\ runs[1].events = OneRead.events
    /\ runs[1].pc = OneRead.pc
    /\ runs[1].replyCode = OneRead.replyCode
    /\ runs[1].replyBody = OneRead.replyBody

\* ---- C33
\* The string the handler holds after the argument strings args arrived, were
\* it to replace the held one only by a strictly longer one.
RECURSIVE LongestSoFar(_, _)
LongestSoFar(held, args) ==
  IF args = <<>> THEN held
  ELSE LongestSoFar(IF Len(Head(args)) > Len(held) THEN Head(args) ELSE held,
                    Tail(args))

RECURSIVE TotalLength(_)
TotalLength(texts) ==
  IF texts = <<>> THEN 0 ELSE Len(Head(texts)) + TotalLength(Tail(texts))

\* C33: for every tool-call index and every sequence of frames, cumulative or
\* not, the stored argument string is the first longest string that arrived
\* for the index (it is replaced only by a strictly longer one, so it never
\* gets shorter), and the lengths of the partial_json deltas written for the
\* index add up to the length of the stored string.
C33_StoredArgumentsGrow ==
  \A idx \in BlockIndexes :
    LET acc == streamingState.toolCallAccumulators
        stored == IF Accumulated(acc, idx) THEN acc[idx] ELSE <<>>
    IN /\ stored = LongestSoFar(<<>>, ArgsFed(fed, idx))
       /\ TotalLength(JsonDeltas(events, idx)) = Len(stored)

\* A shorter string arrived after a longer one and was not stored.
C33_Witness ==
  LET args == ArgsFed(fed, 0)
  IN /\ Len(args) = 3
     /\ Len(args[1]) = 1
     /\ Len(args[2]) = 2
     /\ Len(args[3]) = 1
     /\ args[3] # args[1]
     /\ streamingState.toolCallAccumulators[0] = args[2]

\* ---- C34
\* C34: over a whole streaming response at most one content_block_start is
\* written for each content-block index, for every frame sequence, also when
\* a text or reasoning block was opened at index 0 and a tool-call delta with
\* index 0 or with no index arrives later.
C34_OneStartPerIndex ==
  \A idx \in OpenedIndexes : Cardinality(PositionsAt("content_block_start", idx)) <= 1

\* ---- C35
\* The texts of the frames processed so far that are neither tool-call frames
\* nor frames without text: field is "content" or "reasoning", and a frame
\* with both texts counts for its content.
TextsFed(field) ==
  LET frames == SelectSeq(fed, LAMBDA line :
                   /\ IsFrame(line) /\ line.hasChoices /\ ~line.hasToolCalls
                   /\ IF field = "content" THEN line.content # <<>>
                      ELSE line.content = <<>> /\ line.reasoning # <<>>)
  IN [k \in DOMAIN frames |->
        IF field = "content" THEN frames[k].content ELSE frames[k].reasoning]

\* C35: at every point of a streaming response accumulatedContent is the
\* in-order concatenation of the payloads of the text_delta events written so
\* far and accumulatedReasoning that of the thinking_delta events; tool-call
\* frames and usage-only frames add nothing to either accumulator.
C35_AccumulatorsMatchDeltas ==
  /\ streamingState.accumulatedContent = Concat(DeltaTexts("text_delta"))
  /\ streamingState.accumulatedReasoning = Concat(DeltaTexts("thinking_delta"))
  /\ streamingState.accumulatedContent = Concat(TextsFed("content"))
  /\ streamingState.accumulatedReasoning = Concat(TextsFed("reasoning"))

\* Content, reasoning and a tool-call frame that carries content as well, in
\* one response.
C35_Witness ==
  /\ streamingState.accumulatedContent # <<>>
  /\ streamingState.accumulatedReasoning # <<>>
  /\ \E k \in DOMAIN fed : IsFrame(fed[k]) /\ fed[k].hasToolCalls /\ fed[k].content # <<>>

\* ---- C36
Written(r, type) == {k \in DOMAIN r.events : r.events[k].type = type}
SentinelRead(r) == \E k \in DOMAIN r.fed : r.fed[k].kind = "done"

\* What each terminal state of a streaming request stands for: finalized on
\* the sentinel, output ended at the end of the body, or an error replied.
TerminalOutcome(r) ==
  /\ r.pc = "finalized" => r.rawEnded /\ r.fed # <<>> /\ r.fed[Len(r.fed)].kind = "done"
  /\ r.pc = "eof" => r.rawEnded /\ ~SentinelRead(r)
  /\ r.pc = "failed" => r.replyCode = 500 /\ r.replyBody[1] = "error"

\* C36: every streaming request reaches a terminal state once the backend has
\* delivered the sentinel, the end of the body or a malformed or error frame:
\* it has finalized on the sentinel, ended the output at the end of the body,
\* or replied with an error; and message_delta and message_stop are written
\* only when the sentinel was processed.
C36_ReachesTerminalState ==
  /\ (runs[1].pc = "reading") ~> (runs[1].pc \in {"finalized", "eof", "failed"})
  /\ [](runs[1].pc \in {"reading", "finalized", "eof", "failed"})
  /\ [](TerminalOutcome(runs[1]))
  /\ [](Written(runs[1], "message_delta") \cup Written(runs[1], "message_stop") # {}
          => SentinelRead(runs[1]))

\* A streaming response that ended at the end of the body after events were
\* written, with no message_stop.
C36_Witness ==
  /\ pc = "body"
  /\ runs[1].pc = "eof"
  /\ runs[1].events # <<>>
  /\ Written(runs[1], "message_stop") = {}

====
